---- MODULE Spec2Model ----
(***************************************************************************)
(* Model of the headshot generator front end: the useAuth hook (credit     *)
(* ledger over localStorage), the App component's handlers (batch          *)
(* orchestration over a two-worker pool) and the controls the App renders. *)
(*                                                                         *)
(* A step is one JavaScript task: an event handler run up to its first     *)
(* suspension, or the continuation of one resolved promise together with   *)
(* the microtasks it triggers.  React state is read as of the last render, *)
(* which is up to date at the start of every task.                         *)
(*                                                                         *)
(* Presentation state that no handler and no guard reads (lang,            *)
(* modalContent, isDragging, toastMessage, userName) is left out.          *)
(***************************************************************************)
EXTENDS Integers, Sequences, FiniteSets, Bags, TLC

\* ---------------------------------------------------------------- bounds
NumStyles == 3          \* size of the STYLES catalog
NumImages == 1          \* distinct portrait files the user may upload
MaxCredits == 3         \* cap on the balance (guards of the purchases)
MaxPackage == 3         \* credits of the package offered
MaxRuns == 2            \* runGeneration calls unsettled at the same time
MaxPending == 1         \* signIn / signOut promises pending at the same time

concurrencyLimit == 2

Styles == 1..NumStyles
Images == 1..NumImages

\* Object.keys(STYLES), in catalog order
allStyleKeys == [i \in Styles |-> i]

\* pkg.credits of the packages of the pricing dialog (one package, scaled down)
packages == {MaxPackage}

VARIABLES
    isSignedIn,             \* useAuth state
    credits,                \* useAuth state
    hasUsedFreeGeneration,  \* useAuth state
    localStorage,           \* [egal_user_credits: {} or {n}, egal_guest_free_used: BOOLEAN]
    signInPending,          \* authService.signIn() promises not yet resolved
    signOutPending,         \* authService.signOut() promises not yet resolved
    appState,               \* 'idle' | 'selecting' | 'generating' | 'results'
    uploadedImage,          \* 0 (null) or the image
    reading,                \* 0 or the image a FileReader is loading
    selectedStyles,         \* StyleKey[]
    generatedImages,        \* Record<string, GeneratedImage>: a function on its keys
    error,                  \* a validation message is shown
    isPricingModalOpen,
    runs,                   \* the bag of the runGeneration calls that have not settled
    gemini                  \* one generateHeadshot call followed attempt by attempt

authVars == <<isSignedIn, credits, hasUsedFreeGeneration, localStorage,
              signInPending, signOutPending>>
appVars == <<appState, uploadedImage, reading, selectedStyles, generatedImages,
             error, isPricingModalOpen, runs>>
vars == <<isSignedIn, credits, hasUsedFreeGeneration, localStorage,
          signInPending, signOutPending, appState, uploadedImage, reading,
          selectedStyles, generatedImages, error, isPricingModalOpen, runs>>

\* ------------------------------------------------------------ helpers
Max(a, b) == IF a >= b THEN a ELSE b
Min(a, b) == IF a <= b THEN a ELSE b

Range(s) == {s[i] : i \in 1..Len(s)}

\* prev.filter(k => k !== x)
Without(s, x) == SelectSeq(s, LAMBDA k : k # x)

\* arr.slice(0, n)
Slice(s, n) == SubSeq(s, 1, Min(Len(s), Max(n, 0)))

\* ------------------------------------------------------ authService.ts
\* localStorage.getItem('egal_guest_free_used') === 'true'
getGuestFreeGenerationStatus(ls) == ls.egal_guest_free_used

\* a guest deduction that does not write the flag to localStorage
setGuestFreeGenerationUsedLost(ls) == ls

\* localStorage.setItem('egal_guest_free_used', 'true')
setGuestFreeGenerationUsed(ls) == [ls EXCEPT !.egal_guest_free_used = TRUE]

\* a save that writes nothing
saveUserCreditsLost(ls, n) == ls

\* localStorage.setItem('egal_user_credits', credits.toString())
saveUserCredits(ls, n) == [ls EXCEPT !.egal_user_credits = {n}]

\* a sign-out that leaves the stored balance in place
clearUserCreditsKept(ls) == ls

\* localStorage.removeItem('egal_user_credits')
clearUserCredits(ls) == [ls EXCEPT !.egal_user_credits = {}]

\* parseInt(localStorage.getItem('egal_user_credits') || '0', 10)
storedCredits(ls) ==
    IF ls.egal_user_credits = {} THEN 0
    ELSE CHOOSE n \in ls.egal_user_credits : TRUE

\* ------------------------------------------------------------ useAuth
\* the value the mount effect and handleSignOut give a guest
guestCredits(freeUsed) == IF freeUsed THEN 0 ELSE 1

\* an updater that takes two credits
deductTwo(prevCredits) == Max(0, prevCredits - 2)

\* an updater that takes nothing
deductFree(prevCredits) == prevCredits

\* the updater of deductCredit: Math.max(0, prevCredits - 1)
deductOne(prevCredits) == Max(0, prevCredits - 1)

\* a forEach that charges one credit whatever the number of styles
deductCreditsOnce(prevCredits, n) == deductOne(prevCredits)

\* stylesToGenerate.forEach(() => deductCredit()): the credits after n calls
RECURSIVE deductCredits(_, _)
deductCredits(prevCredits, n) ==
    IF n = 0 THEN prevCredits ELSE deductCredits(deductOne(prevCredits), n - 1)

\* deductCredit called n >= 1 times by the render that saw signedIn
storageAfterDeduct(ls, signedIn, prevCredits, n) ==
    IF signedIn THEN saveUserCredits(ls, deductCredits(prevCredits, n))
    ELSE setGuestFreeGenerationUsed(ls)

\* an updater that takes the package off the balance
newTotalDebit(prev, amount) == prev - amount

\* the updater of handleAddCredits: prev + amount
newTotal(prev, amount) == prev + amount


\* -------------------------------------------------- generatedImages
\* { status: 'pending' }, { status: 'done', url }, { status: 'error', error },
\* { status: 'discarded' }; url is the portrait the image was made from
pendingImage == [status |-> "pending", url |-> 0, error |-> FALSE]
doneImage(resultUrl) == [status |-> "done", url |-> resultUrl, error |-> FALSE]
errorImage == [status |-> "error", url |-> 0, error |-> TRUE]
discardedImage == [status |-> "discarded", url |-> 0, error |-> FALSE]

\* Object.keys(images), as a set: the insertion order of the keys is not kept
keysOf(images) == DOMAIN images

\* images[key]?.status, "absent" for a key the object does not have
statusOf(images, key) ==
    IF key \in keysOf(images) THEN images[key].status ELSE "absent"

\* { ...prev, [key]: image }
putImage(prev, key, image) ==
    [k \in keysOf(prev) \cup {key} |-> IF k = key THEN image ELSE prev[k]]

\* stylesToGenerate.forEach(key => { newImages[key] = { status: 'pending' } })
RECURSIVE seedPending(_, _)
seedPending(prev, stylesToGenerate) ==
    IF stylesToGenerate = <<>> THEN prev
    ELSE seedPending(putImage(prev, Head(stylesToGenerate), pendingImage),
                     Tail(stylesToGenerate))

\* a filter that keeps every entry that is not discarded
keysNotDiscarded(images) ==
    {k \in keysOf(images) : images[k].status # "discarded"}

\* the keys of the entries whose status is 'done' or 'error'
keysToRegenerate(images) ==
    {k \in keysOf(images) : images[k].status \in {"done", "error"}}

\* the arrays that list every key of a set once: Object.entries lists the keys
\* in insertion order, which is one of them
orderings(keys) ==
    {s \in [1..Cardinality(keys) -> keys] : \A i, j \in DOMAIN s : i # j => s[i] # s[j]}

\* --------------------------------------------------- derived values
countWhere(images, statuses) ==
    Cardinality({k \in keysOf(images) : images[k].status \in statuses})

\* generationProgress = done / total, kept as the pair <<done, total>>
generationProgress(images) ==
    IF Cardinality(keysOf(images)) = 0 THEN <<0, 1>>
    ELSE <<countWhere(images, {"done", "error"}), Cardinality(keysOf(images))>>

\* progress < 1 && progress > 0
progressStrictlyBetween(p) == p[1] < p[2] /\ p[1] > 0

canRegenerateAll == countWhere(generatedImages, {"done", "error"}) > 0

isGenerating ==
    \/ appState = "generating"
    \/ appState = "results" /\ progressStrictlyBetween(generationProgress(generatedImages))

isLockedForGuest == ~isSignedIn /\ hasUsedFreeGeneration
isOutOfCredits == isSignedIn /\ credits = 0
canGenerate ==
    /\ Len(selectedStyles) > 0
    /\ credits >= Len(selectedStyles)
    /\ ~isGenerating

\* ------------------------------------------------------------- Init
\* a first visit: empty localStorage, the mount effect of useAuth has run
Mounted(ls) ==
    /\ isSignedIn = FALSE
    /\ hasUsedFreeGeneration = getGuestFreeGenerationStatus(ls)
    /\ credits = guestCredits(getGuestFreeGenerationStatus(ls))
    /\ signInPending = 0
    /\ signOutPending = 0
    /\ appState = "idle"
    /\ uploadedImage = 0
    /\ reading = 0
    /\ selectedStyles = <<>>
    /\ generatedImages = <<>>
    /\ error = FALSE
    /\ isPricingModalOpen = FALSE
    /\ runs = EmptyBag

\* no generateHeadshot call is followed
noCall == [pc |-> "idle", attempt |-> 0, calls |-> <<>>, delays |-> <<>>,
           error |-> <<>>]

Init ==
    /\ localStorage = [egal_user_credits |-> {}, egal_guest_free_used |-> FALSE]
    /\ Mounted(localStorage)
    /\ gemini = noCall

\* the page is loaded again: localStorage is kept, every promise is dropped,
\* the state is the initial state of the hooks and the mount effect has run
Reload ==
    /\ localStorage' = localStorage
    /\ isSignedIn' = FALSE
    /\ hasUsedFreeGeneration' = getGuestFreeGenerationStatus(localStorage)
    /\ credits' = guestCredits(getGuestFreeGenerationStatus(localStorage))
    /\ signInPending' = 0
    /\ signOutPending' = 0
    /\ appState' = "idle"
    /\ uploadedImage' = 0
    /\ reading' = 0
    /\ selectedStyles' = <<>>
    /\ generatedImages' = <<>>
    /\ error' = FALSE
    /\ isPricingModalOpen' = FALSE
    /\ runs' = EmptyBag
    /\ UNCHANGED gemini

\* --------------------------------------------------- useAuth handlers
\* App.handleSignIn: authHandleSignIn(); setIsPricingModalOpen(true)
handleSignIn ==
    /\ signInPending < MaxPending
    /\ signInPending' = signInPending + 1
    /\ isPricingModalOpen' = TRUE
    /\ UNCHANGED <<isSignedIn, credits, hasUsedFreeGeneration, localStorage,
                   signOutPending, appState, uploadedImage, reading,
                   selectedStyles, generatedImages, error, runs>>

\* authService.signIn() resolves: the rest of useAuth.handleSignIn, then the
\* effect on [isSignedIn] if isSignedIn changed
signInResolved ==
    /\ signInPending > 0
    /\ signInPending' = signInPending - 1
    /\ isSignedIn' = TRUE
    /\ credits' = storedCredits(localStorage)
    /\ hasUsedFreeGeneration' =
          IF isSignedIn THEN hasUsedFreeGeneration
          ELSE getGuestFreeGenerationStatus(localStorage)
    /\ UNCHANGED <<localStorage, signOutPending>>
    /\ UNCHANGED appVars
    /\ UNCHANGED gemini

\* useAuth.handleSignOut up to its await
handleSignOut ==
    /\ signOutPending < MaxPending
    /\ signOutPending' = signOutPending + 1
    /\ UNCHANGED <<isSignedIn, credits, hasUsedFreeGeneration, localStorage,
                   signInPending>>
    /\ UNCHANGED appVars

\* authService.signOut() resolves: the rest of useAuth.handleSignOut
signOutResolved ==
    /\ signOutPending > 0
    /\ signOutPending' = signOutPending - 1
    /\ isSignedIn' = FALSE
    /\ localStorage' = clearUserCredits(localStorage)
    /\ hasUsedFreeGeneration' = getGuestFreeGenerationStatus(localStorage')
    /\ credits' = guestCredits(getGuestFreeGenerationStatus(localStorage'))
    /\ UNCHANGED signInPending
    /\ UNCHANGED appVars
    /\ UNCHANGED gemini

\* a purchase that is written to localStorage for a guest as well
handleAddCreditsSaves(amount) ==
    /\ newTotal(credits, amount) <= MaxCredits
    /\ credits' = newTotal(credits, amount)
    /\ localStorage' = saveUserCredits(localStorage, credits')
    /\ isPricingModalOpen' = FALSE
    /\ UNCHANGED <<isSignedIn, hasUsedFreeGeneration, signInPending, signOutPending,
                   appState, uploadedImage, reading, selectedStyles,
                   generatedImages, error, runs>>

\* App.handleAddCredits: authHandleAddCredits(amount); setIsPricingModalOpen(false)
handleAddCredits(amount) ==
    /\ newTotal(credits, amount) <= MaxCredits
    /\ credits' = newTotal(credits, amount)
    /\ localStorage' = IF isSignedIn THEN saveUserCredits(localStorage, credits')
                       ELSE localStorage
    /\ isPricingModalOpen' = FALSE
    /\ UNCHANGED <<isSignedIn, hasUsedFreeGeneration, signInPending, signOutPending,
                   appState, uploadedImage, reading, selectedStyles,
                   generatedImages, error, runs>>

\* onClose of the PricingModal
closePricingModal ==
    /\ isPricingModalOpen' = FALSE
    /\ UNCHANGED authVars
    /\ UNCHANGED <<appState, uploadedImage, reading, selectedStyles,
                   generatedImages, error, runs>>

\* the 'buy more credits' button: setIsPricingModalOpen(true)
openPricingModal ==
    /\ isPricingModalOpen' = TRUE
    /\ UNCHANGED authVars
    /\ UNCHANGED <<appState, uploadedImage, reading, selectedStyles,
                   generatedImages, error, runs>>

\* ------------------------------------------------------- App: upload
MaxFileSize == 5242880
FileTypes == {"image/png", "image/jpeg", "image/webp", "image/gif"}
FileSizes == {MaxFileSize, MaxFileSize + 1}
Files == [type : FileTypes, size : FileSizes, image : Images]

validFileType(file) == file.type \in {"image/png", "image/jpeg", "image/webp"}
\* a size check that lets every file through
validFileSizeAny(file) == TRUE

validFileSize(file) == ~(file.size > MaxFileSize)

\* processFile up to reader.readAsDataURL(file); one file at a time
processFile(file) ==
    /\ reading = 0
    /\ IF ~validFileType(file) \/ ~validFileSize(file)
       THEN error' = TRUE /\ reading' = reading
       ELSE error' = FALSE /\ reading' = file.image
    /\ UNCHANGED authVars
    /\ UNCHANGED <<appState, uploadedImage, selectedStyles, generatedImages,
                   isPricingModalOpen, runs>>

\* reader.onloadend
onloadend ==
    /\ reading # 0
    /\ uploadedImage' = reading
    /\ appState' = "selecting"
    /\ generatedImages' = <<>>
    /\ selectedStyles' = <<>>
    /\ reading' = 0
    /\ UNCHANGED authVars
    /\ UNCHANGED <<error, isPricingModalOpen, runs>>
    /\ UNCHANGED gemini

\* ---------------------------------------------------- App: selection
\* a toggle that selects a style whatever the balance
handleStyleToggleUnbounded(styleKey) ==
    /\ IF styleKey \in Range(selectedStyles)
       THEN selectedStyles' = Without(selectedStyles, styleKey)
       ELSE selectedStyles' = Append(selectedStyles, styleKey)
    /\ UNCHANGED authVars
    /\ UNCHANGED <<appState, uploadedImage, reading, generatedImages, error,
                   isPricingModalOpen, runs>>

handleStyleToggle(styleKey) ==
    /\ IF styleKey \in Range(selectedStyles)
       THEN selectedStyles' = Without(selectedStyles, styleKey)
       ELSE IF Len(selectedStyles) >= credits
            THEN selectedStyles' = selectedStyles
            ELSE selectedStyles' = Append(selectedStyles, styleKey)
    /\ UNCHANGED authVars
    /\ UNCHANGED <<appState, uploadedImage, reading, generatedImages, error,
                   isPricingModalOpen, runs>>

handleSelectAllToggle ==
    /\ IF ~isSignedIn /\ hasUsedFreeGeneration
       THEN selectedStyles' = selectedStyles
       ELSE LET maxSelectable == Min(Len(allStyleKeys), credits)
                isFullySelected == /\ Len(selectedStyles) > 0
                                   /\ Len(selectedStyles) = maxSelectable
            IN  IF isFullySelected
                THEN selectedStyles' = <<>>
                ELSE selectedStyles' = Slice(allStyleKeys, credits)
    /\ UNCHANGED authVars
    /\ UNCHANGED <<appState, uploadedImage, reading, generatedImages, error,
                   isPricingModalOpen, runs>>

\* --------------------------------------------------- App: generation
\* the guards of runGeneration: an image is uploaded and the credits suffice
accepts(stylesToGenerate) ==
    /\ uploadedImage # 0
    /\ ~(credits < Len(stylesToGenerate))

\* the guard of handleGenerateClick: credits < creditCost
cannotAfford(creditCost) == credits < creditCost

\* a pool with a worker for every style
startWorkersAll(kind, stylesToGenerate) ==
    [kind |-> kind,
     styles |-> Range(stylesToGenerate),
     image |-> uploadedImage,
     inflight |-> Range(stylesToGenerate),
     queue |-> <<>>]

\* a pool whose workers take the styles from the end of the array
startWorkersLast(kind, stylesToGenerate) ==
    [kind |-> kind,
     styles |-> Range(stylesToGenerate),
     image |-> uploadedImage,
     inflight |-> Range(SubSeq(stylesToGenerate,
                               Max(1, Len(stylesToGenerate) - concurrencyLimit + 1),
                               Len(stylesToGenerate))),
     queue |-> SubSeq(stylesToGenerate, 1, Len(stylesToGenerate) - concurrencyLimit)]

\* the workers once each has run to its first await: each of the first
\* concurrencyLimit styles has been taken off the queue by one worker, which
\* awaits processStyle for it; a worker that found the queue empty has ended.
\* The workers are interchangeable: a run keeps the keys being awaited, one for
\* each worker that has not ended
startWorkers(kind, stylesToGenerate) ==
    [kind |-> kind,
     styles |-> Range(stylesToGenerate),
     image |-> uploadedImage,
     inflight |-> Range(Slice(stylesToGenerate, concurrencyLimit)),
     queue |-> SubSeq(stylesToGenerate, concurrencyLimit + 1, Len(stylesToGenerate))]

\* runGeneration(stylesToGenerate) up to its await, called by a handler whose
\* own queued update of generatedImages gives prev; the call has been accepted
runGeneration(kind, stylesToGenerate, prev) ==
    /\ BagCardinality(runs) < MaxRuns
    /\ credits' = deductCredits(credits, Len(stylesToGenerate))
    /\ localStorage' = storageAfterDeduct(localStorage, isSignedIn, credits,
                                          Len(stylesToGenerate))
    /\ hasUsedFreeGeneration' = IF isSignedIn THEN hasUsedFreeGeneration ELSE TRUE
    /\ generatedImages' = seedPending(prev, stylesToGenerate)
    /\ runs' = runs (+) SetToBag({startWorkers(kind, stylesToGenerate)})

\* the pricing dialog opened by a rejected request
rejected == IF isSignedIn THEN TRUE ELSE isPricingModalOpen

\* a handler that charges and starts whatever the balance
handleGenerateClickUnchecked ==
    IF Len(selectedStyles) = 0
    THEN UNCHANGED vars
    ELSE /\ runGeneration("batch", selectedStyles, generatedImages)
         /\ appState' = "generating"
         /\ UNCHANGED <<isSignedIn, signInPending, signOutPending, uploadedImage,
                        reading, selectedStyles, error, isPricingModalOpen>>

handleGenerateClick ==
    IF Len(selectedStyles) = 0
    THEN UNCHANGED vars
    ELSE IF cannotAfford(Len(selectedStyles))
    THEN /\ isPricingModalOpen' = rejected
         /\ UNCHANGED authVars
         /\ UNCHANGED <<appState, uploadedImage, reading, selectedStyles,
                        generatedImages, error, runs>>
    ELSE IF ~accepts(selectedStyles)
    THEN \* runGeneration returns at once; setAppState('results') follows
         /\ appState' = "results"
         /\ UNCHANGED authVars
         /\ UNCHANGED <<uploadedImage, reading, selectedStyles, generatedImages,
                        error, isPricingModalOpen, runs>>
    ELSE /\ runGeneration("batch", selectedStyles, generatedImages)
         /\ appState' = "generating"
         /\ UNCHANGED <<isSignedIn, signInPending, signOutPending, uploadedImage,
                        reading, selectedStyles, error, isPricingModalOpen>>

handleRegenerate(key) ==
    IF credits < 1
    THEN /\ isPricingModalOpen' = rejected
         /\ UNCHANGED authVars
         /\ UNCHANGED <<appState, uploadedImage, reading, selectedStyles,
                        generatedImages, error, runs>>
    ELSE IF ~accepts(<<key>>)
    THEN /\ generatedImages' = putImage(generatedImages, key, pendingImage)
         /\ UNCHANGED authVars
         /\ UNCHANGED <<appState, uploadedImage, reading, selectedStyles, error,
                        isPricingModalOpen, runs>>
    ELSE /\ runGeneration("one", <<key>>,
                          putImage(generatedImages, key, pendingImage))
         /\ UNCHANGED <<isSignedIn, signInPending, signOutPending, appState,
                        uploadedImage, reading, selectedStyles, error,
                        isPricingModalOpen>>

\* a discard that deletes the entry
handleDiscardRemoves(key) ==
    /\ generatedImages' = [k \in keysOf(generatedImages) \ {key} |-> generatedImages[k]]
    /\ UNCHANGED authVars
    /\ UNCHANGED <<appState, uploadedImage, reading, selectedStyles, error,
                   isPricingModalOpen, runs>>

\* a discard that changes the status and keeps the rest of the entry
handleDiscardMerges(key) ==
    /\ generatedImages' =
          putImage(generatedImages, key,
                   IF key \in keysOf(generatedImages)
                   THEN [generatedImages[key] EXCEPT !.status = "discarded"]
                   ELSE discardedImage)
    /\ UNCHANGED authVars
    /\ UNCHANGED <<appState, uploadedImage, reading, selectedStyles, error,
                   isPricingModalOpen, runs>>

handleDiscard(key) ==
    /\ generatedImages' = putImage(generatedImages, key, discardedImage)
    /\ UNCHANGED authVars
    /\ UNCHANGED <<appState, uploadedImage, reading, selectedStyles, error,
                   isPricingModalOpen, runs>>

handleRegenerateAll ==
    \E keys \in orderings(keysToRegenerate(generatedImages)) :
        IF ~(Len(keys) > 0)
        THEN UNCHANGED vars
        ELSE IF credits < Len(keys)
        THEN /\ isPricingModalOpen' = rejected
             /\ UNCHANGED authVars
             /\ UNCHANGED <<appState, uploadedImage, reading, selectedStyles,
                            generatedImages, error, runs>>
        ELSE IF ~accepts(keys)
        THEN /\ appState' = "results"
             /\ UNCHANGED authVars
             /\ UNCHANGED <<uploadedImage, reading, selectedStyles,
                            generatedImages, error, isPricingModalOpen, runs>>
        ELSE /\ runGeneration("all", keys, generatedImages)
             /\ appState' = "generating"
             /\ UNCHANGED <<isSignedIn, signInPending, signOutPending,
                            uploadedImage, reading, selectedStyles, error,
                            isPricingModalOpen>>

handleStartOver ==
    /\ uploadedImage' = 0
    /\ selectedStyles' = <<>>
    /\ generatedImages' = <<>>
    /\ error' = FALSE
    /\ appState' = "idle"
    /\ UNCHANGED authVars
    /\ UNCHANGED <<reading, isPricingModalOpen, runs>>

\* ------------------------------------------------ App: the worker pool
\* the write of processStyle when generateHeadshot has returned or thrown
processStyleResult(run, ok) == IF ok THEN doneImage(run.image) ELSE errorImage

\* a worker that ends after its first style
workerEnds(run, key) == [run EXCEPT !.inflight = @ \ {key}]

\* a worker that takes its next style without having finished the one it has
workerOverlaps(run, key) ==
    IF Len(run.queue) > 0
    THEN [run EXCEPT !.inflight = @ \cup {Head(run.queue)},
                     !.queue = Tail(run.queue)]
    ELSE [run EXCEPT !.inflight = @ \ {key}]

\* the loop of the worker that awaited key, after processStyle:
\* while (queue.length > 0) { const key = queue.shift(); ... }
workerContinues(run, key) ==
    IF Len(run.queue) > 0
    THEN [run EXCEPT !.inflight = (@ \ {key}) \cup {Head(run.queue)},
                     !.queue = Tail(run.queue)]
    ELSE [run EXCEPT !.inflight = @ \ {key}]

\* a pool that resumes its caller as soon as one worker has ended
settledRace(run) == Cardinality(run.inflight) < concurrencyLimit

\* Promise.all(workers) has resolved: every worker has ended
settled(run) == run.inflight = {}

\* a processStyle that gives the credit back when generateHeadshot throws
generateHeadshotSettlesRefunds(run, key, ok) ==
    /\ BagIn(run, runs)
    /\ key \in run.inflight
    /\ LET next == workerContinues(run, key)
       IN  /\ generatedImages' =
                 putImage(generatedImages, key, processStyleResult(run, ok))
           /\ IF settled(next)
              THEN /\ runs' = runs (-) SetToBag({run})
                   /\ appState' = IF run.kind = "one" THEN appState ELSE "results"
              ELSE /\ runs' = (runs (-) SetToBag({run})) (+) SetToBag({next})
                   /\ appState' = appState
    /\ credits' = IF ok THEN credits ELSE credits + 1
    /\ UNCHANGED <<isSignedIn, hasUsedFreeGeneration, localStorage,
                   signInPending, signOutPending>>
    /\ UNCHANGED <<uploadedImage, reading, selectedStyles, error, isPricingModalOpen>>

\* a handleRegenerate that shows the results when its call has settled
generateHeadshotSettlesShowsResults(run, key, ok) ==
    /\ BagIn(run, runs)
    /\ key \in run.inflight
    /\ LET next == workerContinues(run, key)
       IN  /\ generatedImages' =
                 putImage(generatedImages, key, processStyleResult(run, ok))
           /\ IF settled(next)
              THEN /\ runs' = runs (-) SetToBag({run})
                   /\ appState' = "results"
              ELSE /\ runs' = (runs (-) SetToBag({run})) (+) SetToBag({next})
                   /\ appState' = appState
    /\ UNCHANGED authVars
    /\ UNCHANGED <<uploadedImage, reading, selectedStyles, error, isPricingModalOpen>>

\* generateHeadshot for key returns (ok) or throws in a run: the write of
\* processStyle, the worker's next turn of the loop and, when that ends the
\* last worker, the continuation of the handler that awaited runGeneration
generateHeadshotSettles(run, key, ok) ==
    /\ BagIn(run, runs)
    /\ key \in run.inflight
    /\ LET next == workerContinues(run, key)
       IN  /\ generatedImages' =
                 putImage(generatedImages, key, processStyleResult(run, ok))
           /\ IF settled(next)
              THEN /\ runs' = runs (-) SetToBag({run})
                   /\ appState' = IF run.kind = "one" THEN appState ELSE "results"
              ELSE /\ runs' = (runs (-) SetToBag({run})) (+) SetToBag({next})
                   /\ appState' = appState
    /\ UNCHANGED authVars
    /\ UNCHANGED <<uploadedImage, reading, selectedStyles, error, isPricingModalOpen>>

\* -------------------------------------------- geminiService, one call
\* callGeminiWithRetry: const maxRetries = 3; const initialDelay = 1000
maxRetries == 3
initialDelay == 1000

\* what ai.models.generateContent can answer. A response has the finishReason
\* of its first candidate, the mimeType of its first inlineData part as
\* <<type, subtype>> (<<>> when no part has inlineData) and its text as a list
\* of phrases; a failure has the code and the status of the service's error
\* (0 and "" when there is none) and its message as the list of the pieces
\* that String.includes can find in it
response(finishReason, mimeType, text) ==
    [ok |-> TRUE, finishReason |-> finishReason, mimeType |-> mimeType,
     text |-> text, code |-> 0, status |-> "", message |-> <<>>]
failure(code, status, message) ==
    [ok |-> FALSE, finishReason |-> "", mimeType |-> <<>>, text |-> <<>>,
     code |-> code, status |-> status, message |-> message]

Responses ==
    {response("STOP", <<"image", "png">>, <<>>),
     response("STOP", <<"text", "plain">>, <<>>),
     response("SAFETY", <<>>, <<>>),
     response("SAFETY", <<"image", "png">>, <<>>),
     response("STOP", <<>>, <<"Sorry, ", "Could Not Find A Face">>),
     response("STOP", <<>>, <<"I cannot edit this photo">>),
     response("STOP", <<>>, <<>>)}

Failures ==
    {failure(500, "INTERNAL", <<"\"code\":500", "INTERNAL">>),
     failure(500, "UNKNOWN", <<"\"code\":500", "UNKNOWN">>),
     failure(503, "UNAVAILABLE", <<"\"code\":503", "UNAVAILABLE">>),
     failure(502, "", <<"Bad Gateway">>),
     failure(400, "INVALID_ARGUMENT", <<"\"code\":400", "INVALID_ARGUMENT">>),
     failure(400, "FAILED_PRECONDITION",
             <<"\"code\":400", "FAILED_PRECONDITION", "INTERNAL">>),
     failure(429, "RESOURCE_EXHAUSTED", <<"\"code\":429", "RESOURCE_EXHAUSTED">>),
     failure(0, "", <<"Failed to fetch">>),
     failure(403, "PERMISSION_DENIED",
             <<"{", "\"message\":", "API key not valid", "}">>),
     failure(500, "INTERNAL",
             <<"{", "\"code\":500", "\"message\":", "Internal error encountered",
               "INTERNAL", "}">>)}

\* String.prototype.includes on a message kept as its pieces
includes(message, piece) == piece \in Range(message)

\* String.prototype.toLowerCase, piece by piece
toLowerCase(text) ==
    [i \in 1..Len(text) |->
        IF text[i] = "Could Not Find A Face" THEN "could not find a face"
        ELSE IF text[i] = "I cannot edit this photo" THEN "i cannot edit this photo"
        ELSE IF text[i] = "Sorry, " THEN "sorry, "
        ELSE text[i]]

\* textResponse?.toLowerCase().includes("could not find a face")
mentionsNoFace(text) == includes(toLowerCase(text), "could not find a face")

\* processGeminiResponse: <<>> when it returns the data URL, else the message
\* of the Error it throws
processGeminiResponse(r) ==
    IF r.finishReason = "SAFETY"
    THEN <<"The request was blocked due to safety concerns.">>
    ELSE IF r.mimeType # <<>>
    THEN IF r.mimeType[1] # "image"
         THEN <<"Expected an image but received MIME type">>
         ELSE <<>>
    ELSE IF mentionsNoFace(r.text)
    THEN <<"No clear face was detected in the uploaded image.">>
    ELSE <<"The AI model responded with text instead of an image">>

\* errorMessage.includes('"code":500') || errorMessage.includes('INTERNAL')
isInternalError(errorMessage) ==
    includes(errorMessage, "\"code\":500") \/ includes(errorMessage, "INTERNAL")

\* 2^n
RECURSIVE pow2(_)
pow2(n) == IF n = 0 THEN 1 ELSE 2 * pow2(n - 1)

\* initialDelay * Math.pow(2, attempt - 1)
delay(attempt) == initialDelay * pow2(attempt - 1)

\* the catch of generateHeadshot: the message of the Error it throws
wrapped(errorMessage) ==
    <<"The AI model failed to generate an image. Details: ">> \o errorMessage

\* the request whose generateHeadshot call is followed: the only one in flight
followedRun == CHOOSE run \in BagToSet(runs) : TRUE
followedKey == CHOOSE key \in followedRun.inflight : TRUE

\* the guest of a first visit has uploaded a portrait, selected one style and
\* clicked generate: processStyle has called generateHeadshot, which has called
\* callGeminiWithRetry, whose first attempt has called generateContent
InitClient ==
    \E key \in Styles, image \in Images :
        /\ isSignedIn = FALSE
        /\ credits = 0
        /\ hasUsedFreeGeneration = TRUE
        /\ localStorage = [egal_user_credits |-> {}, egal_guest_free_used |-> TRUE]
        /\ signInPending = 0
        /\ signOutPending = 0
        /\ appState = "generating"
        /\ uploadedImage = image
        /\ reading = 0
        /\ selectedStyles = <<key>>
        /\ generatedImages = putImage(<<>>, key, pendingImage)
        /\ error = FALSE
        /\ isPricingModalOpen = FALSE
        /\ runs = SetToBag({[kind |-> "batch", styles |-> {key}, image |-> image,
                             inflight |-> {key}, queue |-> <<>>]})
        /\ gemini = [noCall EXCEPT !.pc = "calling", !.attempt = 1]

\* a retry loop that validates the response inside its try
generateContentReturnsRetried ==
    \E r \in Responses :
        /\ gemini.pc = "calling"
        /\ LET thrown == processGeminiResponse(r)
           IN  IF thrown # <<>> /\ gemini.attempt < maxRetries
               THEN /\ gemini' = [gemini EXCEPT
                                     !.pc = "waiting",
                                     !.calls = Append(@, r),
                                     !.delays = Append(@, delay(gemini.attempt))]
                    /\ UNCHANGED vars
               ELSE /\ gemini' = [gemini EXCEPT
                                     !.pc = "settled",
                                     !.calls = Append(@, r),
                                     !.error = IF thrown = <<>> THEN <<>>
                                               ELSE wrapped(thrown)]
                    /\ generateHeadshotSettles(followedRun, followedKey,
                                               thrown = <<>>)

\* generateContent returns a response: callGeminiWithRetry returns it,
\* generateHeadshot returns processGeminiResponse(response) or throws, and
\* processStyle writes the item
generateContentReturns ==
    \E r \in Responses :
        /\ gemini.pc = "calling"
        /\ LET thrown == processGeminiResponse(r)
           IN  /\ gemini' = [gemini EXCEPT
                                !.pc = "settled",
                                !.calls = Append(@, r),
                                !.error = IF thrown = <<>> THEN <<>>
                                          ELSE wrapped(thrown)]
               /\ generateHeadshotSettles(followedRun, followedKey, thrown = <<>>)

\* a catch that retries every failure
generateContentThrowsRetriedAny ==
    \E f \in Failures :
        /\ gemini.pc = "calling"
        /\ gemini.attempt < maxRetries
        /\ gemini' = [gemini EXCEPT !.pc = "waiting",
                                    !.calls = Append(@, f),
                                    !.delays = Append(@, delay(gemini.attempt))]
        /\ UNCHANGED vars

\* a catch that retries whatever the number of the attempt
generateContentThrowsRetriedAgain ==
    \E f \in Failures :
        /\ gemini.pc = "calling"
        /\ isInternalError(f.message)
        /\ gemini' = [gemini EXCEPT !.pc = "waiting",
                                    !.calls = Append(@, f),
                                    !.delays = Append(@, delay(gemini.attempt))]
        /\ UNCHANGED vars

\* generateContent throws and the catch of callGeminiWithRetry waits to retry
generateContentThrowsRetried ==
    \E f \in Failures :
        /\ gemini.pc = "calling"
        /\ isInternalError(f.message) /\ gemini.attempt < maxRetries
        /\ gemini' = [gemini EXCEPT !.pc = "waiting",
                                    !.calls = Append(@, f),
                                    !.delays = Append(@, delay(gemini.attempt))]
        /\ UNCHANGED vars

\* JSON.parse(errorMessage) returns an object: the message is an object literal
parses(errorMessage) ==
    /\ Len(errorMessage) >= 2
    /\ errorMessage[1] = "{"
    /\ errorMessage[Len(errorMessage)] = "}"

\* parsedError.message: the value of the message field, <<>> when there is none
parsedMessage(errorMessage) ==
    LET at == {i \in 1..(Len(errorMessage) - 1) : errorMessage[i] = "\"message\":"}
    IN  IF at = {} THEN <<>>
        ELSE <<errorMessage[(CHOOSE i \in at : \A j \in at : i <= j) + 1]>>

\* what the inner try of the catch throws: the SyntaxError of JSON.parse, the
\* new Error(parsedError.message), or nothing (<<>>)
innerTryThrows(errorMessage) ==
    IF ~parses(errorMessage) THEN <<"SyntaxError">>
    ELSE parsedMessage(errorMessage)

\* catch (e) { }: what the inner catch lets out of what the inner try throws
innerCatchThrows(thrown) == <<>>

\* the message of the error that the catch of callGeminiWithRetry throws when
\* it does not retry: what the inner try/catch lets out, else that of `error`
rethrown(errorMessage) ==
    LET out == innerCatchThrows(innerTryThrows(errorMessage))
    IN  IF out # <<>> THEN out ELSE errorMessage

\* generateContent throws and the catch of callGeminiWithRetry rethrows:
\* generateHeadshot throws and processStyle writes the error
generateContentThrows ==
    \E f \in Failures :
        /\ gemini.pc = "calling"
        /\ ~(isInternalError(f.message) /\ gemini.attempt < maxRetries)
        /\ gemini' = [gemini EXCEPT !.pc = "settled",
                                    !.calls = Append(@, f),
                                    !.error = wrapped(rethrown(f.message))]
        /\ generateHeadshotSettles(followedRun, followedKey, FALSE)

\* the timer of the retry fires: continue, the next attempt calls generateContent
retryTimerFires ==
    /\ gemini.pc = "waiting"
    /\ gemini' = [gemini EXCEPT !.pc = "calling", !.attempt = @ + 1]
    /\ UNCHANGED vars

NextClient ==
    \/ generateContentReturns
    \/ generateContentThrowsRetried
    \/ generateContentThrows
    \/ retryTimerFires

allVars == <<vars, gemini>>

SpecClient == InitClient /\ [][NextClient]_allVars

\* ------------------------------------------- what the App renders
signInShown == ~isSignedIn
signOutShown == isSignedIn
uploadShown == appState = "idle"
selectingShown == appState = "selecting" /\ uploadedImage # 0
buyMoreShown == selectingShown /\ isOutOfCredits
generateEnabled == selectingShown /\ canGenerate
selectAllShown == selectingShown /\ ~isLockedForGuest
resultsShown == appState \in {"generating", "results"}
\* a grid that shows a card with a regenerate button for every entry
regenerateShownAlways(key) == resultsShown /\ key \in keysOf(generatedImages)

\* HeadshotCard: regenerate on a done card and 'try again' on an error card
regenerateShown(key) ==
    resultsShown /\ statusOf(generatedImages, key) \in {"done", "error"}
\* HeadshotCard: discard on a done card only
discardShown(key) == resultsShown /\ statusOf(generatedImages, key) = "done"
resultsHeaderShown ==
    resultsShown /\ ~isGenerating /\ Cardinality(keysOf(generatedImages)) > 0
regenerateAllEnabled ==
    /\ resultsHeaderShown
    /\ ~(\/ isGenerating
         \/ ~canRegenerateAll
         \/ credits < countWhere(generatedImages, {"pending", "done", "error"}))
startOverEnabled == selectingShown \/ (resultsHeaderShown /\ ~isGenerating)

\* ------------------------------------------- the App as it is used
clickSignIn == signInShown /\ handleSignIn /\ UNCHANGED gemini
clickSignOut == signOutShown /\ handleSignOut /\ UNCHANGED gemini
clickBuy == \E amount \in packages : isPricingModalOpen /\ handleAddCredits(amount)
            /\ UNCHANGED gemini
clickClosePricing == isPricingModalOpen /\ closePricingModal /\ UNCHANGED gemini
clickBuyMore == buyMoreShown /\ openPricingModal /\ UNCHANGED gemini
uploadFile == \E file \in Files : uploadShown /\ processFile(file)
              /\ UNCHANGED gemini
clickStyle == \E key \in Styles : selectingShown /\ handleStyleToggle(key)
              /\ UNCHANGED gemini
clickSelectAll == selectAllShown /\ handleSelectAllToggle /\ UNCHANGED gemini
clickGenerate == generateEnabled /\ handleGenerateClick /\ UNCHANGED gemini
clickRegenerate == \E key \in Styles : regenerateShown(key) /\ handleRegenerate(key)
                   /\ UNCHANGED gemini
clickDiscard == \E key \in Styles : discardShown(key) /\ handleDiscard(key)
                /\ UNCHANGED gemini
clickRegenerateAll == regenerateAllEnabled /\ handleRegenerateAll
                      /\ UNCHANGED gemini
clickStartOver == startOverEnabled /\ handleStartOver /\ UNCHANGED gemini
requestSettles ==
    \E run \in BagToSet(runs), key \in Styles, ok \in BOOLEAN :
        generateHeadshotSettles(run, key, ok) /\ UNCHANGED gemini

Next ==
    \/ Reload
    \/ clickSignIn
    \/ signInResolved
    \/ clickSignOut
    \/ signOutResolved
    \/ clickBuy
    \/ clickClosePricing
    \/ clickBuyMore
    \/ uploadFile
    \/ onloadend
    \/ clickStyle
    \/ clickSelectAll
    \/ clickGenerate
    \/ clickRegenerate
    \/ clickDiscard
    \/ clickRegenerateAll
    \/ clickStartOver
    \/ requestSettles

Spec == Init /\ [][Next]_<<vars, gemini>>

\* =================================================================
\* Properties
\* =================================================================
\* a step in which a runGeneration call is accepted and its workers start
runStarts == BagCardinality(runs') = BagCardinality(runs) + 1

\* the run that a step has started
startedRuns == {run \in BagToSet(runs') : CopiesIn(run, runs') > CopiesIn(run, runs)}

\* the requests in flight, over all runs
totalInflight ==
    LET RECURSIVE sum(_)
        sum(rs) == IF rs = {} THEN 0
                   ELSE LET r == CHOOSE x \in rs : TRUE
                        IN  CopiesIn(r, runs) * Cardinality(r.inflight) + sum(rs \ {r})
    IN  sum(BagToSet(runs))

\* C1: the step that accepts startBatch(S) and puts the first requests of the
\* batch in flight has reduced the balance by exactly |S| and has set every
\* style of S to pending; no request of the batch is in flight before it.
StartBatchChargesUpFront ==
    [][runStarts =>
         \A run \in startedRuns :
             run.kind = "batch" =>
                 /\ run.styles = Range(selectedStyles)
                 /\ credits' = credits - Len(selectedStyles)
                 /\ \A s \in run.styles : statusOf(generatedImages', s) = "pending"
                 /\ run.inflight # {}
                 /\ ~\E old \in BagToSet(runs) : old.kind = "batch"]_vars

\* C1 witness: a batch of three styles has just been accepted with a balance
\* of three: the balance is 0, the three are pending, nothing has completed
StartBatchChargesUpFrontWitness ==
    \E run \in BagToSet(runs) :
        /\ run.kind = "batch"
        /\ Cardinality(run.styles) = 3
        /\ Cardinality(run.inflight) = 2
        /\ Len(run.queue) = 1
        /\ \A s \in run.styles : statusOf(generatedImages, s) = "pending"
        /\ credits = 0

\* ------------------------------------------------------------- C2
\* the batch (the runGeneration call of handleGenerateClick) that is unsettled
batchRuns == {run \in BagToSet(runs) : run.kind = "batch"}
batchRunning == batchRuns # {}

\* a request of the unsettled batch returns or throws
batchRequestSettles ==
    \E run \in batchRuns, key \in Styles, ok \in BOOLEAN :
        generateHeadshotSettles(run, key, ok)

\* every upstream call of a batch eventually resolves
SpecLive == Spec /\ WF_vars(batchRequestSettles)

\* the step in which the batch call completes: handleGenerateClick resumes
batchCompletes == batchRunning /\ ~batchRunning' /\ appState' = "results"

\* a request for style s is in flight or queued in some unsettled run
awaited(s, rs) == \E run \in BagToSet(rs) : s \in run.inflight \cup Range(run.queue)

\* C2 (as claimed): when the batch call completes, every style of S has status
\* done or error.
BatchCompletesAllTerminal ==
    [][batchCompletes =>
         \A run \in batchRuns : \A s \in run.styles :
             statusOf(generatedImages', s) \in {"done", "error"}]_vars

\* C2 (amended): a batch that is running eventually completes or the page is
\* reloaded; it completes with its last request, its queue empty; and when it
\* completes every style of S is done or error, or discarded by the user in
\* the meantime, or pending for a regeneration that is still awaited.
BatchCompletesDrained ==
    /\ batchRunning ~> ~batchRunning
    /\ [][batchCompletes =>
            \A run \in batchRuns :
                /\ run.queue = <<>>
                /\ Cardinality(run.inflight) = 1
                /\ \A s \in run.styles :
                      \/ statusOf(generatedImages', s) \in {"done", "error", "discarded"}
                      \/ /\ statusOf(generatedImages', s) = "pending"
                         /\ awaited(s, runs')]_vars

\* C2 witness: a batch of three styles has completed, one of its styles was
\* discarded and another is pending for a regeneration started during the batch
BatchCompletesDrainedWitness ==
    /\ appState = "results"
    /\ ~batchRunning
    /\ Len(selectedStyles) = 3
    /\ \E s \in Range(selectedStyles) : statusOf(generatedImages, s) = "discarded"
    /\ \E s \in Range(selectedStyles) :
          statusOf(generatedImages, s) = "pending" /\ awaited(s, runs)
    /\ \E s \in Range(selectedStyles) : statusOf(generatedImages, s) \in {"done", "error"}

\* ------------------------------------------------------------- C3
\* what a rejected request must leave alone: the balance, the guest flag in
\* the hook and in storage, every entry of generatedImages, the requests
chargedOrStarted ==
    <<credits, hasUsedFreeGeneration, localStorage, generatedImages, runs>>

\* C3: whenever no style is selected or more styles are selected than there
\* are credits, handleGenerateClick cannot change the balance, the guest flag,
\* any entry of generatedImages, or start a request.
StartBatchRejectedIsNoOp ==
    (Len(selectedStyles) = 0 \/ Len(selectedStyles) > credits) =>
        ~ENABLED (handleGenerateClick /\ chargedOrStarted' # chargedOrStarted)

\* C3 witness: a signed-in user has selected more styles than credits and the
\* handler answers by opening the pricing dialog
StartBatchRejectedIsNoOpWitness ==
    /\ isSignedIn
    /\ uploadedImage # 0
    /\ Len(selectedStyles) > credits
    /\ ~isPricingModalOpen
    /\ ENABLED (handleGenerateClick /\ isPricingModalOpen')

\* ------------------------------------------------------------- C4
\* C4: the credit balance is never negative.
BalanceNeverNegative == credits >= 0

\* C4 witness: a signed-in user has spent the last credits on requests that
\* are still in flight
BalanceNeverNegativeWitness ==
    /\ isSignedIn
    /\ credits = 0
    /\ totalInflight = concurrencyLimit
    /\ storedCredits(localStorage) = 0

\* ------------------------------------------------------------- C7
\* C7 (as claimed): a package bought while the user is not signed in leaves
\* the balance unchanged.
GuestAddCreditsIsNoOp ==
    [][(~isSignedIn /\ clickBuy) => credits' = credits]_vars

\* ------------------------------------------------------------- C5
\* C5 (as claimed): while the user is not signed in the balance is 0 or 1, and
\* it is 1 exactly when the free generation has not been used.
GuestBalanceMirrorsFlag ==
    ~isSignedIn =>
        /\ credits \in {0, 1}
        /\ credits = 1 <=> ~hasUsedFreeGeneration

\* ------------------------------------------------------------- C6
\* once set, the persisted flag of the free generation is never cleared
GuestFreeFlagStays ==
    [][localStorage.egal_guest_free_used =>
         localStorage'.egal_guest_free_used]_vars

\* C6 (as claimed): once the persisted flag of the free generation is set, the
\* balance of a guest is never 1 again.
GuestFreeGenerationOnce ==
    (localStorage.egal_guest_free_used /\ ~isSignedIn) => credits # 1

\* ------------------------------------------------------------- C8
\* C8 (as claimed): at most concurrencyLimit requests are in flight in total.
AtMostTwoInFlight == totalInflight <= concurrencyLimit

\* C8 (amended): every runGeneration call has at most concurrencyLimit of its
\* own requests in flight, so the requests in flight in total are at most
\* concurrencyLimit for each call that has not settled.
AtMostTwoInFlightPerCall ==
    /\ \A run \in BagToSet(runs) :
          /\ Cardinality(run.inflight) <= concurrencyLimit
          /\ Cardinality(run.inflight) >= 1
    /\ totalInflight <= concurrencyLimit * BagCardinality(runs)

\* C8 witness: a batch has two requests in flight and a regeneration started
\* meanwhile has a third
AtMostTwoInFlightPerCallWitness ==
    /\ totalInflight = concurrencyLimit + 1
    /\ \E run \in BagToSet(runs) :
          run.kind = "batch" /\ Cardinality(run.inflight) = concurrencyLimit
    /\ \E run \in BagToSet(runs) : run.kind = "one"

\* ------------------------------------------------------------- C9
\* the changes of status the claim allows an entry that stays in the store
allowedTransitions ==
    {<<"pending", "done">>, <<"pending", "error">>,
     <<"done", "pending">>, <<"error", "pending">>,
     <<"done", "discarded">>, <<"error", "discarded">>}

\* C9 (as claimed): the status of an item of the store changes only from
\* pending to done or error, from done or error to pending, and from done or
\* error to discarded; a discarded item stays discarded. (An item enters the
\* store and leaves it with the reset of the store under any status.)
ItemTransitions ==
    [][\A key \in Styles :
         LET before == statusOf(generatedImages, key)
             after == statusOf(generatedImages', key)
         IN  \/ before = after
             \/ before = "absent"
             \/ after = "absent"
             \/ <<before, after>> \in allowedTransitions]_vars

\* ------------------------------------------------------------ C10
\* the entry of key, "absent" for a key the store does not have
entryOf(images, key) == IF key \in keysOf(images) THEN images[key] ELSE "absent"

\* C10: handleDiscard(key) always leaves the item of key discarded, every
\* other entry and the balance as they were, and the whole state as it was
\* when the item was discarded already.
DiscardSetsDiscarded ==
    \A key \in Styles :
        ~ENABLED (/\ handleDiscard(key)
                  /\ ~(/\ statusOf(generatedImages', key) = "discarded"
                       /\ \A k \in Styles \ {key} :
                             entryOf(generatedImages', k) = entryOf(generatedImages, k)
                       /\ credits' = credits
                       /\ statusOf(generatedImages, key) = "discarded" =>
                             vars' = vars))

\* C10 witness: an item is discarded while others are done and pending
DiscardSetsDiscardedWitness ==
    /\ \E key \in Styles : statusOf(generatedImages, key) = "discarded"
    /\ \E key \in Styles : statusOf(generatedImages, key) = "done"
    /\ \E key \in Styles : statusOf(generatedImages, key) = "pending"

\* ------------------------------------------------------------ C11
\* what a regeneration charges, writes and starts
chargedWrittenOrStarted == <<credits, generatedImages, runs>>

\* C11 (as claimed): handleRegenerate for a discarded item changes neither the
\* balance nor the store and starts no request.
RegenerateDiscardedIsNoOp ==
    \A key \in Styles :
        statusOf(generatedImages, key) = "discarded" =>
            ~ENABLED (handleRegenerate(key) /\
                      chargedWrittenOrStarted' # chargedWrittenOrStarted)

\* C11 (amended): no step of the App is a regeneration of an item that is not
\* done or error: the grid renders no card for a discarded item and no
\* regenerate button on a pending card, so a discarded item is never charged
\* for, set pending or requested by handleRegenerate.
RegenerateOnlyDoneOrError ==
    [][\A key \in Styles :
         statusOf(generatedImages, key) \notin {"done", "error"} =>
             ~(handleRegenerate(key) /\
               chargedWrittenOrStarted' # chargedWrittenOrStarted)]_vars

\* C11 witness: an item is discarded, there are credits to regenerate it, and
\* another item of the same grid has been regenerated
RegenerateOnlyDoneOrErrorWitness ==
    /\ resultsShown
    /\ credits >= 1
    /\ \E key \in Styles :
          /\ statusOf(generatedImages, key) = "discarded"
          /\ ENABLED (handleRegenerate(key) /\
                      chargedWrittenOrStarted' # chargedWrittenOrStarted)
    /\ \E run \in BagToSet(runs) : run.kind = "one"

\* ------------------------------------------------------------ C12
\* the request that a regeneration of key starts
oneRequestFor(key) ==
    [kind |-> "one", styles |-> {key}, image |-> uploadedImage,
     inflight |-> {key}, queue |-> <<>>]

\* C12: a click on the regenerate button of an item, with a credit, takes
\* exactly one credit, sets that item pending, starts exactly one request,
\* for it, and leaves every other entry as it was; without a credit it leaves
\* the store, the balance and the requests as they were.
RegenerateOneChargesOne ==
    [][\A key \in Styles :
         (regenerateShown(key) /\ handleRegenerate(key)) =>
             IF credits >= 1
             THEN /\ credits' = credits - 1
                  /\ generatedImages'[key] = pendingImage
                  /\ \A k \in Styles \ {key} :
                        entryOf(generatedImages', k) = entryOf(generatedImages, k)
                  /\ runs' = runs (+) SetToBag({oneRequestFor(key)})
             ELSE chargedWrittenOrStarted' = chargedWrittenOrStarted]_vars

\* C12 witness: the last credit has been spent on the regeneration of one
\* item, whose request is in flight, and another item still shows its button
RegenerateOneChargesOneWitness ==
    /\ credits = 0
    /\ \E key \in Styles :
          /\ BagIn(oneRequestFor(key), runs)
          /\ statusOf(generatedImages, key) = "pending"
          /\ \E k \in Styles \ {key} : regenerateShown(k)

\* ------------------------------------------------------------ C13
\* the items of the store that are done or error
doneOrError == {k \in Styles : statusOf(generatedImages, k) \in {"done", "error"}}

\* what handleRegenerateAll must have done for the n items of doneOrError
regeneratedAll(n) ==
    IF n = 0 \/ credits < n
    THEN chargedWrittenOrStarted' = chargedWrittenOrStarted
    ELSE /\ credits' = credits - n
         /\ \A k \in doneOrError : generatedImages'[k] = pendingImage
         /\ \A k \in Styles \ doneOrError :
               entryOf(generatedImages', k) = entryOf(generatedImages, k)
         /\ appState' = "generating"
         /\ \E run \in startedRuns :
               /\ runs' = runs (+) SetToBag({run})
               /\ run.kind = "all"
               /\ run.styles = doneOrError
               /\ Cardinality(run.inflight) = Min(n, concurrencyLimit)
               /\ Len(run.queue) = n - Min(n, concurrencyLimit)
               /\ run.inflight \cup Range(run.queue) = doneOrError

\* C13: wherever the results view is rendered, handleRegenerateAll takes the
\* items that are done or error and no other; with fewer credits than those
\* items it leaves the balance, the store and the requests as they were;
\* otherwise it takes one credit for each of them, sets each pending and starts
\* the pool of workers over them as a batch does, leaving the other entries.
RegenerateAllExactlyDoneOrError ==
    resultsShown =>
        ~ENABLED (handleRegenerateAll /\ ~regeneratedAll(Cardinality(doneOrError)))

\* C13 witness: three items have been regenerated at once with the last three
\* credits; two requests are in flight and one is queued
RegenerateAllExactlyDoneOrErrorWitness ==
    /\ credits = 0
    /\ \E run \in BagToSet(runs) :
          /\ run.kind = "all"
          /\ Cardinality(run.styles) = 3
          /\ Len(run.queue) = 1
          /\ \A s \in run.styles : statusOf(generatedImages, s) = "pending"

\* C13 witness of the probe: the results view shows a mix of pending, done and
\* discarded items, with credits for the done ones
RegenerateAllMixedStore ==
    /\ resultsShown
    /\ \E k \in Styles : statusOf(generatedImages, k) = "pending"
    /\ \E k \in Styles : statusOf(generatedImages, k) = "discarded"
    /\ doneOrError # {}
    /\ credits >= Cardinality(doneOrError)
    /\ BagCardinality(runs) < MaxRuns

\* ------------------------------------------------------------ C14
\* the generateContent calls made so far by the call that is followed
upstreamCalls == Len(gemini.calls) + IF gemini.pc = "calling" THEN 1 ELSE 0

\* the status of the item the followed call is for
followedStatus == statusOf(generatedImages, selectedStyles[1])

\* the answer was a failure that callGeminiWithRetry takes for transient
transientFailure(answer) == ~answer.ok /\ isInternalError(answer.message)

\* the answer was a response with an image that passes the validation
imageResponse(answer) ==
    answer.ok /\ answer.finishReason # "SAFETY" /\ answer.mimeType # <<>>
              /\ answer.mimeType[1] = "image"

\* C14: one generateHeadshot call makes at most 3 generateContent calls; every
\* call but the last failed with a transient failure and was followed by a wait
\* of 1000 * 2^(k-1) after the k-th; a transient failure ends the call only as
\* the third; two transient failures and an image give 3 calls and a done item;
\* three transient failures give 3 calls and an error item.
RetryAtMostThreeAttempts ==
    /\ upstreamCalls <= 3
    /\ \A k \in 1..(upstreamCalls - 1) :
          /\ transientFailure(gemini.calls[k])
          /\ gemini.delays[k] = 1000 * pow2(k - 1)
    /\ Len(gemini.delays) = IF upstreamCalls = 0 THEN 0
                            ELSE IF gemini.pc = "waiting" THEN upstreamCalls
                            ELSE upstreamCalls - 1
    /\ gemini.pc = "settled" =>
          LET last == gemini.calls[Len(gemini.calls)]
          IN  /\ transientFailure(last) =>
                    Len(gemini.calls) = 3 /\ followedStatus = "error"
              /\ imageResponse(last) => followedStatus = "done"

\* C14 witness: two transient failures, waits of 1000 and 2000, then an image
\* on the third call, and the item is done
RetryAtMostThreeAttemptsWitness ==
    /\ gemini.pc = "settled"
    /\ Len(gemini.calls) = 3
    /\ transientFailure(gemini.calls[1]) /\ transientFailure(gemini.calls[2])
    /\ imageResponse(gemini.calls[3])
    /\ gemini.delays = <<1000, 2000>>
    /\ followedStatus = "done"

\* C14 second case: three transient failures, three calls, and the item is error
RetryExhausted ==
    /\ gemini.pc = "settled"
    /\ Len(gemini.calls) = 3
    /\ \A k \in 1..3 : transientFailure(gemini.calls[k])
    /\ followedStatus = "error"

\* ------------------------------------------------------------ C15
\* the answer was a failure that callGeminiWithRetry does not take for transient
permanentFailure(answer) == ~answer.ok /\ ~isInternalError(answer.message)

\* C15: a failure that is not classified transient ends the generateHeadshot
\* call: it is the last generateContent call, no wait follows it, and the item
\* is error with a message; as the first answer it leaves exactly one call and
\* no wait at all.
PermanentFailureNotRetried ==
    \A k \in 1..Len(gemini.calls) :
        permanentFailure(gemini.calls[k]) =>
            /\ k = Len(gemini.calls)
            /\ upstreamCalls = k
            /\ Len(gemini.delays) = k - 1
            /\ gemini.pc = "settled"
            /\ followedStatus = "error"
            /\ generatedImages[selectedStyles[1]].error
            /\ gemini.error # <<>>

\* C15 witness: the first call failed with a malformed-input error; one call,
\* no wait, the item is error
PermanentFailureNotRetriedWitness ==
    /\ Len(gemini.calls) = 1
    /\ gemini.calls[1].status = "INVALID_ARGUMENT"
    /\ permanentFailure(gemini.calls[1])
    /\ gemini.delays = <<>>
    /\ followedStatus = "error"

\* ------------------------------------------------------------ C16
\* C16: a response of generateContent ends the generateHeadshot call: it is
\* the last generateContent call and no wait follows it; a response that is
\* blocked for safety, has no image part or has a part that is not an image
\* leaves the item error with a message, whatever the number of the attempt.
ValidationNotRetried ==
    \A k \in 1..Len(gemini.calls) :
        gemini.calls[k].ok =>
            /\ k = Len(gemini.calls)
            /\ upstreamCalls = k
            /\ Len(gemini.delays) = k - 1
            /\ gemini.pc = "settled"
            /\ (\/ gemini.calls[k].finishReason = "SAFETY"
                \/ gemini.calls[k].mimeType = <<>>
                \/ gemini.calls[k].mimeType[1] # "image") =>
                    /\ followedStatus = "error"
                    /\ generatedImages[selectedStyles[1]].error
                    /\ gemini.error # <<>>

\* C16 witness: the first call returned a part that is not an image; one call,
\* no wait, the item is error
ValidationNotRetriedWitness ==
    /\ Len(gemini.calls) = 1
    /\ gemini.calls[1].ok
    /\ gemini.calls[1].mimeType = <<"text", "plain">>
    /\ gemini.attempt = 1
    /\ gemini.delays = <<>>
    /\ followedStatus = "error"

\* ------------------------------------------------------------ C17
\* the failure is of the 5xx class or of the internal category
transientByStatus(answer) ==
    ~answer.ok /\ (answer.code \in 500..599 \/ answer.status = "INTERNAL")

\* C17 (as claimed): every failure of generateContent whose code is 5xx or
\* whose status is INTERNAL is retried when fewer than 3 calls have been made.
ServerErrorsRetried ==
    \A k \in 1..Len(gemini.calls) :
        (transientByStatus(gemini.calls[k]) /\ k < 3) => Len(gemini.delays) >= k

\* the classification reads the message: a failure that is neither 5xx nor
\* INTERNAL is never retried
OnlyServerErrorsRetried ==
    \A k \in 1..Len(gemini.calls) :
        (~gemini.calls[k].ok /\ Len(gemini.delays) >= k) =>
            transientByStatus(gemini.calls[k])

\* ------------------------------------------------------------ C18
\* the styles of a run that have not been written: awaited or queued
remaining(run) == run.inflight \cup Range(run.queue)

\* a run is started with every one of its styles awaited or queued, once
handedOnce(run) ==
    /\ remaining(run) = run.styles
    /\ run.inflight \cap Range(run.queue) = {}
    /\ Cardinality(Range(run.queue)) = Len(run.queue)

\* the run as it must be after the request for key has returned or thrown:
\* the worker takes the head of the queue if there is one
afterRequest(run, key) ==
    IF run.queue = <<>>
    THEN [run EXCEPT !.inflight = @ \ {key}]
    ELSE [run EXCEPT !.inflight = (@ \ {key}) \cup {Head(run.queue)},
                     !.queue = Tail(@)]

\* C18: a run starts with each of its styles awaited or queued exactly once;
\* when a request returns or throws, its style alone leaves the run, the item
\* is written done or error, and the head of the queue, if any, is requested
\* next, whether the request returned or threw; a run ends only when none of
\* its styles remains.
FailuresAreIsolated ==
    [][/\ runStarts => \A run \in startedRuns : handedOnce(run)
       /\ requestSettles =>
             \E run \in BagToSet(runs), key \in Styles :
                 /\ key \in run.inflight
                 /\ statusOf(generatedImages', key) \in {"done", "error"}
                 /\ LET next == afterRequest(run, key)
                    IN  /\ remaining(next) = remaining(run) \ {key}
                        /\ runs' = IF remaining(next) = {}
                                   THEN runs (-) SetToBag({run})
                                   ELSE (runs (-) SetToBag({run})) (+)
                                        SetToBag({next})]_vars

\* C18 witness: in a batch of three styles the first item ended in error, the
\* queued style was requested all the same, and a sibling is done
FailuresAreIsolatedWitness ==
    /\ Len(selectedStyles) = 3
    /\ statusOf(generatedImages, selectedStyles[1]) = "error"
    /\ statusOf(generatedImages, selectedStyles[2]) = "done"
    /\ statusOf(generatedImages, selectedStyles[3]) = "pending"
    /\ \E run \in batchRuns :
          run.inflight = {selectedStyles[3]} /\ run.queue = <<>>

\* ------------------------------------------------------------ C19
\* C19: the step that writes an item done or error leaves the balance and the
\* stored balance as they were; the balance changes only in a step that starts
\* a run (deductCredit), buys a package (handleAddCredits), resolves a
\* sign-in or a sign-out, or loads the page again.
NoRefund ==
    [][/\ requestSettles => (credits' = credits /\ localStorage' = localStorage)
       /\ credits' # credits =>
             \/ runStarts /\ credits' < credits
             \/ clickBuy
             \/ signInResolved
             \/ signOutResolved
             \/ Reload]_vars

\* C19 witness: a signed-in user has spent the last credit on an item that
\* ended in error; nothing is in flight and the balance is still 0
NoRefundWitness ==
    /\ isSignedIn
    /\ credits = 0
    /\ localStorage.egal_user_credits = {0}
    /\ runs = EmptyBag
    /\ appState = "results"
    /\ \A key \in keysOf(generatedImages) : statusOf(generatedImages, key) = "error"
    /\ keysOf(generatedImages) # {}

\* ------------------------------------------------------------ C20
\* C20: after every step in which the user is signed in, the balance in
\* localStorage (0 when the key is absent) is the balance of the hook; and a
\* sign-in that resolves gives the hook the stored balance.
SignedInBalancePersisted ==
    [][/\ isSignedIn' => storedCredits(localStorage') = credits'
       /\ signInResolved => credits' = storedCredits(localStorage)]_vars

\* C20 witness: a signed-in user has bought a package and spent one credit on
\* a request in flight; the stored balance is the balance of the hook
SignedInBalancePersistedWitness ==
    /\ isSignedIn
    /\ credits = MaxPackage - 1
    /\ localStorage.egal_user_credits = {credits}
    /\ runs # EmptyBag

\* =================================================================
\* useAuth on its own: the operations the hook returns, called in any order
\* =================================================================
\* deductCredit(), one call, made by the render that saw isSignedIn
deductCredit ==
    /\ hasUsedFreeGeneration' = IF ~isSignedIn THEN TRUE ELSE hasUsedFreeGeneration
    /\ credits' = deductOne(credits)
    /\ localStorage' = IF ~isSignedIn THEN setGuestFreeGenerationUsed(localStorage)
                       ELSE saveUserCredits(localStorage, deductOne(credits))
    /\ UNCHANGED <<isSignedIn, signInPending, signOutPending>>
    /\ UNCHANGED appVars

\* a catch that signs the user in all the same
signInRejectedSignsIn ==
    /\ signInPending > 0
    /\ signInPending' = signInPending - 1
    /\ isSignedIn' = TRUE
    /\ UNCHANGED <<credits, hasUsedFreeGeneration, localStorage, signOutPending>>
    /\ UNCHANGED appVars

\* authService.signIn() rejects: the catch of useAuth.handleSignIn logs the
\* error and sets nothing
signInRejected ==
    /\ signInPending > 0
    /\ signInPending' = signInPending - 1
    /\ UNCHANGED <<isSignedIn, credits, hasUsedFreeGeneration, localStorage,
                   signOutPending>>
    /\ UNCHANGED appVars

callSignIn == handleSignIn /\ UNCHANGED gemini
signInSucceeds == signInResolved
signInFails == signInRejected /\ UNCHANGED gemini
callSignOut == handleSignOut /\ UNCHANGED gemini
signOutSucceeds == signOutResolved
callAddCredits == \E amount \in packages : handleAddCredits(amount) /\ UNCHANGED gemini
callDeductCredit == deductCredit /\ UNCHANGED gemini
pageReloads == Reload

NextAuth ==
    \/ callSignIn
    \/ signInSucceeds
    \/ signInFails
    \/ callSignOut
    \/ signOutSucceeds
    \/ callAddCredits
    \/ callDeductCredit
    \/ pageReloads

SpecAuth == Init /\ [][NextAuth]_<<vars, gemini>>

\* ------------------------------------------------------------- C21
\* C21: deductCredit can be called in every state; a call leaves the balance
\* at max(0, balance - 1); a call made as a guest leaves the free-generation
\* flag set, in the hook and in localStorage, whatever the balance was; a call
\* made signed in leaves the flag, in the hook and in localStorage, as it was.
DeductOneContract ==
    [][/\ ENABLED deductCredit
       /\ deductCredit =>
             /\ credits' = (IF credits >= 1 THEN credits - 1 ELSE 0)
             /\ ~isSignedIn =>
                   /\ hasUsedFreeGeneration'
                   /\ getGuestFreeGenerationStatus(localStorage')
             /\ isSignedIn =>
                   /\ hasUsedFreeGeneration' = hasUsedFreeGeneration
                   /\ getGuestFreeGenerationStatus(localStorage')
                         = getGuestFreeGenerationStatus(localStorage)]_vars

\* C21 witness: a guest whose balance is already 0 calls deductCredit: the
\* balance stays 0 and the flag is set in localStorage
DeductOneContractWitness ==
    /\ ~isSignedIn
    /\ credits = 0
    /\ ENABLED (deductCredit /\ credits' = 0
                /\ getGuestFreeGenerationStatus(localStorage'))

\* ------------------------------------------------------------- C22
\* C22: the step in which signOut resolves leaves no signed-in balance in
\* localStorage, leaves the user signed out, and leaves the balance at 0 when
\* localStorage holds the guest flag and at 1 when it does not, whatever the
\* balance was before the step.
SignOutRestoresGuest ==
    [][signOutResolved =>
          /\ localStorage'.egal_user_credits = {}
          /\ isSignedIn' = FALSE
          /\ credits' = (IF localStorage.egal_guest_free_used THEN 0 ELSE 1)
          /\ localStorage'.egal_guest_free_used = localStorage.egal_guest_free_used]_vars

\* C22 witness: a signed-in user with a stored balance of 3, who used the free
\* generation as a guest, is about to be signed out: the balance becomes 0
SignOutRestoresGuestWitness ==
    /\ isSignedIn
    /\ credits = 3
    /\ localStorage.egal_user_credits = {3}
    /\ localStorage.egal_guest_free_used
    /\ ENABLED (signOutResolved /\ credits' = 0 /\ ~isSignedIn'
                /\ localStorage'.egal_user_credits = {})

\* ------------------------------------------------------------- C23
\* a step in which a pending signIn ends without having resolved
signInFailed ==
    /\ signInPending' = signInPending - 1
    /\ ~signInResolved
    /\ ~Reload

\* C23: the step in which a signIn fails changes nothing of the ledger: the
\* user is signed in after it only if signed in before it, and the balance,
\* the free-generation flag and localStorage are as before it.
SignInFailureLeavesLedger ==
    [][signInFailed =>
          /\ isSignedIn' = isSignedIn
          /\ credits' = credits
          /\ hasUsedFreeGeneration' = hasUsedFreeGeneration
          /\ localStorage' = localStorage]_vars

\* C23 witness: a guest with a balance of 1, whose account holds 3 credits in
\* localStorage, waits for a signIn that fails: the guest stays a guest with 1
SignInFailureLeavesLedgerWitness ==
    /\ ~isSignedIn
    /\ credits = 1
    /\ localStorage.egal_user_credits = {3}
    /\ signInPending > 0
    /\ ENABLED (signInRejected /\ signInFailed /\ ~isSignedIn' /\ credits' = 1)

\* ------------------------------------------------------------- C24
\* the runs a step has taken away (ended, or replaced by their next state)
replacedRuns == {run \in BagToSet(runs) : CopiesIn(run, runs') < CopiesIn(run, runs)}

requestStartedFor(key) ==
    \E next \in startedRuns :
        /\ key \in next.inflight
        /\ \A run \in replacedRuns : key \notin run.inflight

\* C25 (as claimed): while an item of the store has status error, a step
\* changes its status, or starts a request for it, only if the step is the
\* user's regenerate of the item, regenerate-all or discard of the item.
\* (The reset of the store removes the item; a batch the user starts is the
\* user's act as well.)
ErrorStaysUntilUserActs ==
    [][\A key \in Styles :
          statusOf(generatedImages, key) = "error" =>
              \/ /\ statusOf(generatedImages', key) = "error"
                 /\ ~requestStartedFor(key)
              \/ statusOf(generatedImages', key) = "absent"
              \/ handleRegenerate(key)
              \/ handleRegenerateAll
              \/ handleDiscard(key)
              \/ handleGenerateClick]_vars

\* ------------------------------------------------------------- C26
\* C26 (as claimed): in every reachable state the number of selected styles is
\* at most the balance.
SelectionWithinBalance == Len(selectedStyles) <= credits


\* C26 (amended): the bound is kept by the steps that select, not by the
\* state: a step that changes the selection either removes a style from it or
\* leaves at most as many styles selected as the balance allows.  The balance
\* may drop below the size of a selection that exists.
SelectionStepsWithinBalance ==
    [][selectedStyles' # selectedStyles =>
          \/ Len(selectedStyles') < Len(selectedStyles)
          \/ Len(selectedStyles') <= credits']_vars

\* C26 witness: two styles are selected with a balance of 2, and a click on a
\* third style leaves the selection as it is
SelectionStepsWithinBalanceWitness ==
    /\ selectingShown
    /\ credits = 2
    /\ Len(selectedStyles) = 2
    /\ \E key \in Styles \ Range(selectedStyles) :
           ENABLED (handleStyleToggle(key) /\ selectedStyles' = selectedStyles)

\* ------------------------------------------------------------- C27
\* no entry of the store is awaiting a result
noneAwaited(images) == countWhere(images, {"pending"}) = 0

\* C27 (as claimed): progress is the number of done or error entries over the
\* number of entries, 0 for an empty store; for a store that is not empty it
\* is 1 exactly when no entry is pending; and it gates nothing: what the App
\* takes for 'generating' is decided by appState alone.
ProgressIsDisplayOnly ==
    LET p == generationProgress(generatedImages)
    IN  /\ keysOf(generatedImages) = {} => p[1] = 0
        /\ keysOf(generatedImages) # {} =>
              /\ p = <<countWhere(generatedImages, {"done", "error"}),
                       Cardinality(keysOf(generatedImages))>>
              /\ (p[1] = p[2]) <=> noneAwaited(generatedImages)
        /\ isGenerating <=> appState = "generating"


\* the results screen with nothing awaited and no request in flight, which the
\* App takes for generating: the header with start-over and regenerate-all is
\* not rendered
ProgressStuck ==
    /\ appState = "results"
    /\ runs = EmptyBag
    /\ noneAwaited(generatedImages)
    /\ isGenerating
    /\ ~startOverEnabled

\* ------------------------------------------------------------- C28
\* a file that is to be rejected: not a png, jpeg or webp, or above 5 MiB
notAccepted(file) ==
    \/ file.type \notin {"image/png", "image/jpeg", "image/webp"}
    \/ file.size > 5 * 1024 * 1024

\* C28: in every reachable state, processFile of a file that is not a png,
\* jpeg or webp, or that is larger than 5 MiB, sets the validation message and
\* changes nothing else: not the uploaded image, the selection, the store, the
\* application state, the ledger, and no FileReader is started.
InvalidUploadOnlySetsError ==
    \A file \in Files :
        notAccepted(file) =>
            ~ENABLED (/\ processFile(file)
                      /\ ~(/\ error' = TRUE
                           /\ UNCHANGED <<uploadedImage, selectedStyles, generatedImages,
                                          appState, credits, reading, runs,
                                          isSignedIn, hasUsedFreeGeneration,
                                          localStorage, isPricingModalOpen>>))

\* C28 witness: a guest on the upload screen has given a file that was
\* rejected: the message is shown, nothing is uploaded or being read
InvalidUploadOnlySetsErrorWitness ==
    /\ error
    /\ appState = "idle"
    /\ uploadedImage = 0
    /\ reading = 0
    /\ credits = 1
    /\ \E file \in Files : notAccepted(file) /\ ENABLED processFile(file)

\* ------------------------------------------------------------- C29
\* C29 (as claimed): the pricing dialog is open only while the user is signed
\* in, so that no purchase is made by a guest.
PricingOnlyWhenSignedIn == isPricingModalOpen => isSignedIn

\* ------------------------------------------------------------- C30
\* the requests in flight for key, over all unsettled runGeneration calls
inflightFor(key) ==
    LET RECURSIVE sum(_)
        sum(rs) == IF rs = {} THEN 0
                   ELSE LET r == CHOOSE x \in rs : TRUE
                        IN  (IF key \in r.inflight THEN CopiesIn(r, runs) ELSE 0)
                            + sum(rs \ {r})
    IN  sum(BagToSet(runs))

\* C30 (as claimed): at every moment at most one generation request is in
\* flight for each style.
OneRequestPerStyle == \A key \in Styles : inflightFor(key) <= 1

\* ------------------------------------------------------------- C31
\* C31: a runGeneration call for the styles S never has more than min(2, |S|)
\* of its own requests in flight; a step in which one of its requests settles
\* takes that request out of flight and puts at most one other, taken by the
\* same worker, in flight; and the call completes with the last of its
\* requests, its queue empty, so that none of its requests is in flight then.
PoolOfTwoPerBatch ==
    [][/\ \A run \in BagToSet(runs') :
             Cardinality(run.inflight) <= Min(2, Cardinality(run.styles))
       /\ ~Reload =>
             \A run \in replacedRuns :
                 \/ \E next \in startedRuns :
                       /\ next.styles = run.styles
                       /\ Cardinality(run.inflight \ next.inflight) = 1
                       /\ Cardinality(next.inflight \ run.inflight) <= 1
                 \/ /\ startedRuns = {}
                    /\ run.queue = <<>>
                    /\ Cardinality(run.inflight) = 1]_vars

\* C31 witness: of a batch of three styles two have completed; one worker has
\* ended and the other awaits the third style alone
PoolOfTwoPerBatchWitness ==
    \E run \in BagToSet(runs) :
        /\ run.kind = "batch"
        /\ Cardinality(run.styles) = 3
        /\ run.queue = <<>>
        /\ Cardinality(run.inflight) = 1
        /\ countWhere(generatedImages, {"done", "error"}) = 2
        /\ \A s \in run.inflight : statusOf(generatedImages, s) = "pending"

\* ------------------------------------------------------------- C32
\* C32 (as claimed): on the results screen, when no item of the store is
\* pending, isGenerating is false and the header with start-over is rendered.
ResultsHeaderWhenNothingPending ==
    (/\ appState = "results"
     /\ keysOf(generatedImages) # {}
     /\ noneAwaited(generatedImages))
        => (~isGenerating /\ resultsHeaderShown /\ startOverEnabled)

\* ------------------------------------------------------------- C33
\* C33 (as claimed): an empty store gets its first entry only in the step that
\* accepts a batch, and every image of the store was made from the portrait
\* that is uploaded now.
StoreEmptyUntilNextBatch ==
    [][/\ (generatedImages = <<>> /\ generatedImages' # <<>>) =>
             (handleGenerateClick /\ runStarts)
       /\ \A key \in keysOf(generatedImages') :
             generatedImages'[key].status = "done" =>
                 generatedImages'[key].url = uploadedImage']_vars

\* ------------------------------------------------------------- C34
\* the requests a run has in flight or has still to start
requestsLeft(run) == Cardinality(run.inflight) + Len(run.queue)

\* C34: the step that accepts a runGeneration call for n styles finds a
\* balance of at least n, so that each of its n deductions finds at least 1,
\* takes exactly n off the balance and commits the call to exactly n requests,
\* one for each style; no other step adds a request to a call.  So the
\* requests started are as many as the credits deducted.
EveryGenerationPaid ==
    [][/\ runStarts =>
             \A run \in startedRuns :
                 /\ requestsLeft(run) >= 1
                 /\ requestsLeft(run) = Cardinality(run.styles)
                 /\ remaining(run) = run.styles
                 /\ credits >= requestsLeft(run)
                 /\ credits' = credits - requestsLeft(run)
       /\ ~runStarts =>
             \A next \in startedRuns :
                 \E run \in replacedRuns :
                     requestsLeft(next) = requestsLeft(run) - 1]_vars

\* C34 witness: a signed-in user has spent a balance of 3 on a batch of two
\* styles and on one regeneration, which is in flight: the stored balance is 0
EveryGenerationPaidWitness ==
    /\ isSignedIn
    /\ credits = 0
    /\ localStorage.egal_user_credits = {0}
    /\ Cardinality(keysOf(generatedImages)) = 2
    /\ countWhere(generatedImages, {"done", "error"}) = 1
    /\ \E run \in BagToSet(runs) :
           /\ run.kind = "one"
           /\ \A s \in run.inflight : statusOf(generatedImages, s) = "pending"
    /\ BagCardinality(runs) = 1

\* ------------------------------------------------------------- C35
\* C35: every entry of the store fits its status: a done entry has the image
\* and no message, an error entry has the message and no image, a pending or
\* discarded entry has neither.
EntriesFitStatus ==
    \A key \in keysOf(generatedImages) :
        LET image == generatedImages[key]
        IN  /\ image.status \in {"pending", "done", "error", "discarded"}
            /\ image.status = "done" => (image.url # 0 /\ ~image.error)
            /\ image.status = "error" => (image.url = 0 /\ image.error)
            /\ image.status \in {"pending", "discarded"} =>
                  (image.url = 0 /\ ~image.error)

\* C35 witness: the store holds a done entry with its image, an error entry
\* with its message and a discarded entry that was done before
EntriesFitStatusWitness ==
    /\ \E key \in keysOf(generatedImages) :
           generatedImages[key] = doneImage(uploadedImage) /\ uploadedImage # 0
    /\ \E key \in keysOf(generatedImages) : generatedImages[key] = errorImage
    /\ \E key \in keysOf(generatedImages) : generatedImages[key] = discardedImage

\* ------------------------------------------------------------- C36
\* C36: the step in which signOut resolves leaves no balance in localStorage;
\* no step taken as a guest writes one; and a signIn that resolves for a guest
\* gives the balance that localStorage holds.  So the signIn that follows a
\* signOut gives 0, whatever the balance was at the signOut.
SignOutForgetsBalance ==
    [][/\ signOutResolved => localStorage'.egal_user_credits = {}
       /\ (~isSignedIn /\ ~isSignedIn' /\ localStorage.egal_user_credits = {}) =>
             localStorage'.egal_user_credits = {}
       /\ (~isSignedIn /\ signInResolved) =>
             /\ credits' = storedCredits(localStorage)
             /\ localStorage.egal_user_credits = {} => credits' = 0]_vars

\* C36 witness: a user with a balance of 3 is being signed out while the next
\* signIn is already pending: the signOut empties the stored balance and the
\* signIn is still to resolve
SignOutForgetsBalanceWitness ==
    /\ isSignedIn
    /\ credits = 3
    /\ localStorage.egal_user_credits = {3}
    /\ signInPending > 0
    /\ ENABLED (/\ signOutResolved
                /\ localStorage'.egal_user_credits = {}
                /\ ~isSignedIn'
                /\ signInPending' > 0)

\* ------------------------------------------------------------- C37
\* the calls that handleGenerateClick and handleRegenerateAll await
awaitedByState == {run \in BagToSet(runs) : run.kind \in {"batch", "all"}}

\* C37: appState is 'generating' exactly while a call of handleGenerateClick
\* or handleRegenerateAll is unsettled; it becomes 'results' only in the step
\* in which such a call settles, and it does so in that step; and a step in
\* which a regeneration of one item starts or settles leaves it as it is.
GeneratingWhileCallUnsettled ==
    [][/\ (appState' = "generating") <=> (\E run \in BagToSet(runs') :
                                             run.kind \in {"batch", "all"})
       /\ (appState # "results" /\ appState' = "results") =>
             \E run \in awaitedByState : CopiesIn(run, runs') < CopiesIn(run, runs)
       /\ (~Reload /\ \E run \in awaitedByState :
                         CopiesIn(run, runs') < CopiesIn(run, runs)
                         /\ ~\E next \in startedRuns : next.kind = run.kind)
             => appState' = "results"
       /\ (~Reload /\ \E run \in replacedRuns \cup startedRuns : run.kind = "one") =>
             appState' = appState]_vars


\* C37 witness: a regeneration that was in flight at a start-over has settled
\* on the upload screen: its write is in the store and appState is still 'idle'
GeneratingWhileCallUnsettledWitness ==
    /\ appState = "idle"
    /\ uploadedImage = 0
    /\ runs = EmptyBag
    /\ generatedImages # <<>>

\* ------------------------------------------------------------- C38
\* C38 (as claimed): when the failure that ends the call has a message that
\* parses as JSON with a message field, the error of callGeminiWithRetry, which
\* generateHeadshot wraps, carries the extracted message.
ExtractedMessageThrown ==
    (gemini.pc = "settled" /\ gemini.calls # <<>>) =>
        LET last == gemini.calls[Len(gemini.calls)]
        IN  (/\ ~last.ok
             /\ parses(last.message)
             /\ parsedMessage(last.message) # <<>>)
                => gemini.error = wrapped(parsedMessage(last.message))

\* the call has ended on a failure whose message has a message field, and the
\* error carries the whole original message
OriginalMessageThrown ==
    /\ gemini.pc = "settled"
    /\ gemini.calls # <<>>
    /\ LET last == gemini.calls[Len(gemini.calls)]
       IN  /\ ~last.ok
           /\ parsedMessage(last.message) = <<"API key not valid">>
           /\ gemini.error = wrapped(last.message)

====
